---------------------------- MODULE Spec2Model ----------------------------
(***************************************************************************)
(* AI-assisted editing orchestration core.                                 *)
(*                                                                         *)
(*  - Composer (src/src/components/Composer.tsx): the session / task       *)
(*    orchestrator: handleSubmit, executeTasks, executeTask,               *)
(*    handleAcceptChanges, handleRejectChanges and the buttons that        *)
(*    invoke them.                                                         *)
(*  - CursorTab (src/unnamed/part_002, lines 101-536): the inline          *)
(*    suggestion engine: event wiring, debounce timer, triggerSuggestion,  *)
(*    accept / partial accept / dismiss.                                   *)
(*  - AIService (src/src/services/AIService.ts, lines 109-150): the        *)
(*    WebSocket connection: connect, disconnect, reconnect timer.          *)
(*                                                                         *)
(* Both are React function components.  A React state variable is a       *)
(* variable of the model; an async handler is a small process whose        *)
(* position (pc) and locals are a record; every await is a step boundary;  *)
(* a value a callback closes over is a local captured when the callback    *)
(* was created.                                                            *)
(***************************************************************************)
EXTENDS Integers, Sequences, FiniteSets, TLC

VARIABLES
    \* ---- Composer: React state (Composer.tsx:50-54)
    prompt,          \* useState(initialPrompt): a string, as a sequence of characters
    isLoading,       \* useState(false): the busy flag
    currentSession,  \* useState<ComposerSession | null>(null)
    showPreview,     \* useState(false)
    \* ---- Composer: running handlers
    sub,             \* the handleSubmit invocation: pc, its locals, its closure
    acc,             \* the handleAcceptChanges invocation: pc, its closure
    \* ---- Composer: the file-persistence collaborator as seen by the Composer
    fileCalls,       \* FileService calls since the latest submit, in issue order:
                     \* those of the execution loop, then those of the latest
                     \* handleAcceptChanges
    nextId,          \* stands for Date.now() in session ids: grows with every submit
    rejectedPlanning, \* id of the session of the latest submit if it was rejected
                     \* while its status was 'planning', else 0
    \* ---- CursorTab: React state (part_002:137-139)
    currentSuggestion, \* useState<InlineSuggestion | null>(null)
    tabIsLoading,      \* useState(false): isLoading of CursorTab
    sinceLastTrigger,  \* Date.now() - lastTriggerTime, cut off at MIN_TRIGGER_INTERVAL
    \* ---- CursorTab: refs (part_002:140-142) and the timer table
    ghost,             \* ghostTextWidgetRef: the decoration shown
    timeoutRef,        \* timeoutRef.current: a timer id, 0 if unset
    lastPositionRef,   \* lastPositionRef.current
    timers,            \* pending setTimeout timers: id and time left
    \* ---- the host editor and the suggestion endpoint
    cursor,            \* editor.getPosition()
    lineBefore,        \* the cursor's line up to the cursor
    requests,          \* outstanding getInlineSuggestion calls: the position
                       \* each was issued at, in issue order
    \* ---- CursorTab: bookkeeping for the properties
    sinceEvent,        \* time since the latest content change or cursor event,
                       \* cut off at DEBOUNCE_DELAY
    issuedSinceEvent,  \* requests issued by the debounce timer since then
    lastStep,          \* the latest step of the engine other than the passage
                       \* of time: its kind where a property is about it, the
                       \* edits it made in the host, the notifications it sent
    \* ---- AIService: the WebSocket connection (AIService.ts:13, 109-150)
    ws                 \* the sockets created so far, wsConnection, the pending
                       \* reconnect timers

composerVars == <<prompt, isLoading, currentSession, showPreview,
                  sub, acc, fileCalls, nextId, rejectedPlanning>>

tabVars == <<currentSuggestion, tabIsLoading, sinceLastTrigger, ghost,
             timeoutRef, lastPositionRef, timers, cursor, lineBefore, requests,
             sinceEvent, issuedSinceEvent, lastStep>>

vars == <<composerVars, tabVars, ws>>

----------------------------------------------------------------------------
(* Bounds of the model *)

MaxTasks == 3

MaxSessions == 2

----------------------------------------------------------------------------
(* Strings are sequences of one-character strings *)

IsSpace(c) == c \in {" ", "\t", "\n"}

RECURSIVE TrimStart(_)
TrimStart(s) ==
    IF s = <<>> THEN <<>>
    ELSE IF IsSpace(Head(s)) THEN TrimStart(Tail(s)) ELSE s

RECURSIVE TrimEnd(_)
TrimEnd(s) ==
    IF s = <<>> THEN <<>>
    ELSE IF IsSpace(s[Len(s)]) THEN TrimEnd(SubSeq(s, 1, Len(s) - 1)) ELSE s

\* String.prototype.trim
Trim(s) == TrimEnd(TrimStart(s))

\* the prompts a user types: empty, whitespace only, a request
Prompts == { <<>>, <<" ">>, <<"f", "i", "x">> }

----------------------------------------------------------------------------
(* Composer data model *)

\* null, as a record so that it compares with sessions
NoSession == [id |-> 0, prompt |-> <<>>, tasks |-> <<>>, status |-> "null"]

TaskTypes == {"edit", "create", "delete", "move"}

TaskStatuses == {"pending", "in_progress", "completed", "failed"}

SessionStatuses == {"planning", "executing", "completed", "failed"}

\* What the planner decides about one task: its type and whether it carries
\* newContent (newContent is only read for edit and create).
TaskShapes ==
    { [type |-> t, hasNewContent |-> c] :
        t \in {"edit", "create"}, c \in BOOLEAN }
    \cup { [type |-> t, hasNewContent |-> FALSE] : t \in {"delete", "move"} }

\* A planned task list: task k has id k and its own file path k; the planner
\* creates every task 'pending'.
PlannedTasks(shapes) ==
    [k \in 1..Len(shapes) |->
        [id |-> k, type |-> shapes[k].type, filePath |-> k,
         hasNewContent |-> shapes[k].hasNewContent, status |-> "pending"]]

Plans == UNION { [1..n -> TaskShapes] : n \in 0..MaxTasks }

SubIdle == [pc |-> "idle", session |-> NoSession, captured |-> NoSession, i |-> 0]

\* failed: the request behind a FileService call of this invocation ended in
\* an error
AccIdle == [pc |-> "idle", session |-> NoSession, i |-> 0, failed |-> FALSE]

----------------------------------------------------------------------------
(* FileService and executeTask *)

\* The FileService method executeTask calls for a task, "none" if it calls
\* nothing (Composer.tsx:143-162).
FileOpOf(task) ==
    CASE task.type = "edit"   -> IF task.hasNewContent THEN "saveFileContent" ELSE "none"
      [] task.type = "create" -> IF task.hasNewContent THEN "createFile" ELSE "none"
      [] task.type = "delete" -> "deleteFile"
      [] task.type = "move"   -> "none"

\* saveFileContent / createFile / deleteFile catch the HTTP error and return
\* false (FileService.ts:31-67): whatever the outcome ok of the request, the
\* awaited call does not throw, and executeTask ignores the returned boolean.
ExecuteTaskThrows(task, ok) == FALSE

\* how the HTTP request behind a FileService call ends
Outcomes == {"ok", "error"}

\* A call record: which task, which FileService method on which path, issued
\* by the execution loop or by handleAcceptChanges, and its outcome
\* ("pending" while the call is outstanding, then the outcome of the request
\* for a call of the loop, "returned" for a call of handleAcceptChanges, whose
\* outcome is kept in acc.failed).
Call(sid, task, who) ==
    [sid |-> sid, task |-> task.id, op |-> FileOpOf(task), path |-> task.filePath,
     by |-> who, ok |-> "pending"]

\* executeTask(task) up to its await: the call it issues, if any
IssueCall(calls, sid, task, who) ==
    IF FileOpOf(task) = "none" THEN calls
    ELSE Append(calls, Call(sid, task, who))

Outstanding(calls) == { k \in 1..Len(calls) : calls[k].ok = "pending" }

\* the awaited call returns with outcome ok
ResolveCall(calls, who, ok) ==
    [k \in 1..Len(calls) |->
        IF calls[k].ok = "pending" /\ calls[k].by = who
        THEN [calls[k] EXCEPT !.ok = ok] ELSE calls[k]]

RECURSIVE ByLoop(_)
\* the calls the execution loop issued
ByLoop(calls) ==
    IF calls = <<>> THEN <<>>
    ELSE IF Head(calls).by = "loop" THEN <<Head(calls)>> \o ByLoop(Tail(calls))
    ELSE ByLoop(Tail(calls))

SetStatus(tasks, k, st) == [tasks EXCEPT ![k].status = st]

----------------------------------------------------------------------------
(* AIService: the WebSocket connection (AIService.ts:109-150).  A socket is *)
(* "open" from new WebSocket(url) on, "closing" once close() was called on  *)
(* it, and "closed" when its close event has been delivered.                *)

MaxSockets == 4

\* no socket yet, wsConnection = null; disconnected: disconnectWebSocket was
\* called and no client has called connectWebSocket since
WsIdle == [sockets |-> <<>>, wsConnection |-> 0, timers |-> 0,
           disconnected |-> FALSE]

ServiceInit == ws = WsIdle

\* connectWebSocket(onMessage) (AIService.ts:109-137): a new socket, kept in
\* wsConnection; the socket there before is left as it is
ConnectWebSocket(w) ==
    [w EXCEPT !.sockets = Append(@, "open"),
              !.wsConnection = Len(w.sockets) + 1]

\* a client calls connectWebSocket (the editor does on every mount,
\* part_005:212)
ClientConnect ==
    /\ Len(ws.sockets) < MaxSockets
    /\ ws' = [ConnectWebSocket(ws) EXCEPT !.disconnected = FALSE]
    /\ UNCHANGED <<composerVars, tabVars>>

\* disconnectWebSocket (AIService.ts:145-150); close() on a socket that is
\* not open does nothing
DisconnectWebSocket ==
    /\ ws' = IF ws.wsConnection # 0
             THEN [ws EXCEPT !.sockets[ws.wsConnection] =
                                IF @ = "open" THEN "closing" ELSE @,
                             !.wsConnection = 0,
                             !.disconnected = TRUE]
             ELSE [ws EXCEPT !.disconnected = TRUE]
    /\ UNCHANGED <<composerVars, tabVars>>

\* the close event of a socket is delivered, after close() or because the
\* connection failed or was dropped: onclose arms the reconnect timer
\* (AIService.ts:126-132)
SocketClosed ==
    /\ \E k \in 1..Len(ws.sockets) :
          /\ ws.sockets[k] \in {"open", "closing"}
          /\ ws' = [ws EXCEPT !.sockets[k] = "closed", !.timers = @ + 1]
    /\ UNCHANGED <<composerVars, tabVars>>

\* a reconnect timer is due: its callback calls connectWebSocket
\* (AIService.ts:129-131)
ReconnectFire ==
    /\ ws.timers > 0
    /\ Len(ws.sockets) < MaxSockets
    /\ ws' = [ConnectWebSocket(ws) EXCEPT !.timers = @ - 1]
    /\ UNCHANGED <<composerVars, tabVars>>

WsNext ==
    \/ ClientConnect
    \/ DisconnectWebSocket
    \/ SocketClosed
    \/ ReconnectFire

----------------------------------------------------------------------------
(* Composer: initial state *)

ComposerInit ==
    /\ prompt = <<>>
    /\ isLoading = FALSE
    /\ currentSession = NoSession
    /\ showPreview = FALSE
    /\ sub = SubIdle
    /\ acc = AccIdle
    /\ fileCalls = <<>>
    /\ nextId = 1
    /\ rejectedPlanning = 0

----------------------------------------------------------------------------
(* Composer: the controls (Composer.tsx:312-319, 327-331, 344, 361-375).   *)
(* The dialog is taken to be open: isOpen belongs to the parent, which can  *)
(* reopen it at any time, and closing it leaves the Composer's state alone. *)

\* <textarea disabled={isLoading}>
PromptEnabled == ~isLoading

\* <button onClick={handleSubmit} disabled={!prompt.trim() || isLoading}>
SubmitEnabled == ~(Trim(prompt) = <<>> \/ isLoading)

PreviewShown == showPreview /\ currentSession # NoSession

\* <button onClick={handleAcceptChanges}
\*         disabled={isLoading || currentSession.status === 'executing'}>
AcceptEnabled ==
    PreviewShown /\ ~(isLoading \/ currentSession.status = "executing")

\* <button onClick={handleRejectChanges} disabled={isLoading}>
CancelEnabled == PreviewShown /\ ~isLoading

----------------------------------------------------------------------------
(* Composer: actions *)

\* onChange={(e) => setPrompt(e.target.value)}
SetPrompt ==
    /\ PromptEnabled
    /\ \E p \in Prompts : prompt' = p
    /\ UNCHANGED <<isLoading, currentSession, showPreview, sub, acc,
                   fileCalls, nextId, rejectedPlanning>>

\* handleSubmit without the busy half of its guard
HandleSubmitBodyNoBusyGuard ==
    IF Trim(prompt) = <<>>
    THEN UNCHANGED composerVars
    ELSE LET session == [id |-> nextId, prompt |-> Trim(prompt),
                         tasks |-> <<>>, status |-> "planning"]
         IN /\ isLoading' = TRUE
            /\ currentSession' = session
            /\ showPreview' = TRUE
            /\ sub' = [pc |-> "tree", session |-> session,
                       captured |-> currentSession, i |-> 0]
            /\ fileCalls' = <<>>
            /\ acc' = AccIdle
            /\ nextId' = nextId + 1
            /\ rejectedPlanning' = 0
            /\ UNCHANGED prompt

\* handleSubmit up to its first await (Composer.tsx:63-86): the guard, the
\* new 'planning' session, and the file-tree request of getCodebaseContext.
\* The handler closes over the currentSession of the render it was created
\* in, which is the session current when it is invoked.
HandleSubmitBody ==
    IF Trim(prompt) = <<>> \/ isLoading
    THEN UNCHANGED composerVars
    ELSE LET session == [id |-> nextId, prompt |-> Trim(prompt),
                         tasks |-> <<>>, status |-> "planning"]
         IN /\ isLoading' = TRUE
            /\ currentSession' = session
            /\ showPreview' = TRUE
            /\ sub' = [pc |-> "tree", session |-> session,
                       captured |-> currentSession, i |-> 0]
            /\ fileCalls' = <<>>
            /\ acc' = AccIdle
            /\ nextId' = nextId + 1
            /\ rejectedPlanning' = 0
            /\ UNCHANGED prompt

HandleSubmit ==
    /\ SubmitEnabled
    /\ sub.pc \in {"idle", "done"}
    /\ nextId <= MaxSessions
    /\ HandleSubmitBody

\* FileService.getFileTree() returns (it falls back to mock data on error,
\* FileService.ts:7-16); the plan request is issued (Composer.tsx:82-86).
FileTreeReturn ==
    /\ sub.pc = "tree"
    /\ sub' = [sub EXCEPT !.pc = "plan"]
    /\ UNCHANGED <<prompt, isLoading, currentSession, showPreview, acc,
                   fileCalls, nextId, rejectedPlanning>>

\* The plan arrives (Composer.tsx:88-97): the session gets the planned tasks
\* and becomes 'executing'; executeTasks(updatedSession) is entered.
PlanReturn ==
    /\ sub.pc = "plan"
    /\ \E shapes \in Plans :
        LET updatedSession == [sub.session EXCEPT !.tasks = PlannedTasks(shapes),
                                                  !.status = "executing"]
        IN /\ currentSession' = updatedSession
           /\ sub' = [sub EXCEPT !.pc = "loop", !.session = updatedSession,
                                 !.captured = NoSession, !.i = 1]
    /\ UNCHANGED <<prompt, isLoading, showPreview, acc,
                   fileCalls, nextId, rejectedPlanning>>

\* The plan request fails: planComposerChanges rethrows (AIService.ts:169-181),
\* the catch of handleSubmit marks the session it closed over as failed, if
\* there was one, and the finally clears the busy flag (Composer.tsx:99-109).
PlanFails ==
    /\ sub.pc = "plan"
    /\ currentSession' =
         IF sub.captured # NoSession
         THEN [sub.captured EXCEPT !.status = "failed"]
         ELSE currentSession
    /\ isLoading' = FALSE
    /\ sub' = SubIdle
    /\ UNCHANGED <<prompt, showPreview, acc,
                   fileCalls, nextId, rejectedPlanning>>

\* FinalStatus with "no task failed" taken for "every task completed"
FinalStatusNoFailure(session) ==
    IF \A k \in 1..Len(session.tasks) : session.tasks[k].status # "failed"
    THEN "completed" ELSE "failed"

\* session status computed after the loop (Composer.tsx:135-140), from the
\* task list of the session object executeTasks was given
FinalStatus(session) ==
    IF \A k \in 1..Len(session.tasks) : session.tasks[k].status = "completed"
    THEN "completed" ELSE "failed"

\* LoopStart with the await of executeTask(task) dropped: the call is issued
\* and the loop goes on to the next task at once
LoopStartNoAwait ==
    /\ sub.pc = "loop"
    /\ sub.i <= Len(sub.session.tasks)
    /\ LET session == sub.session
           task == session.tasks[sub.i]
           updatedTasks == SetStatus(session.tasks, sub.i, "in_progress")
       IN /\ currentSession' = [session EXCEPT !.tasks = updatedTasks]
          /\ fileCalls' = IssueCall(fileCalls, session.id, task, "loop")
    /\ sub' = [sub EXCEPT !.i = sub.i + 1]
    /\ UNCHANGED <<prompt, isLoading, showPreview, acc,
                   nextId, rejectedPlanning>>

\* Top of one loop iteration of executeTasks (Composer.tsx:113-122): a fresh
\* copy of session.tasks with task i 'in_progress' is published and
\* executeTask(task) is called.
LoopStart ==
    /\ sub.pc = "loop"
    /\ sub.i <= Len(sub.session.tasks)
    /\ LET session == sub.session
           task == session.tasks[sub.i]
           updatedTasks == SetStatus(session.tasks, sub.i, "in_progress")
       IN /\ currentSession' = [session EXCEPT !.tasks = updatedTasks]
          /\ fileCalls' = IssueCall(fileCalls, session.id, task, "loop")
    /\ sub' = [sub EXCEPT !.pc = "exec"]
    /\ UNCHANGED <<prompt, isLoading, showPreview, acc,
                   nextId, rejectedPlanning>>

\* executeTask(task) settles (Composer.tsx:122-132): the awaited FileService
\* call, if any, returns with outcome ok; the task is published 'completed',
\* or 'failed' if executeTask threw.
LoopSettle ==
    /\ sub.pc = "exec"
    /\ \E ok \in Outcomes :
        LET session == sub.session
            task == session.tasks[sub.i]
            st == IF ExecuteTaskThrows(task, ok) THEN "failed" ELSE "completed"
            updatedTasks == SetStatus(session.tasks, sub.i, st)
        IN /\ fileCalls' = ResolveCall(fileCalls, "loop", ok)
           /\ currentSession' = [session EXCEPT !.tasks = updatedTasks]
    /\ sub' = [sub EXCEPT !.pc = "loop", !.i = sub.i + 1]
    /\ UNCHANGED <<prompt, isLoading, showPreview, acc,
                   nextId, rejectedPlanning>>

\* LoopFinish without the finally of handleSubmit
LoopFinishKeepsBusy ==
    /\ sub.pc = "loop"
    /\ sub.i > Len(sub.session.tasks)
    /\ currentSession' = [sub.session EXCEPT !.status = FinalStatus(sub.session)]
    /\ sub' = [sub EXCEPT !.pc = "done"]
    /\ UNCHANGED <<prompt, isLoading, showPreview, acc,
                   fileCalls, nextId, rejectedPlanning>>

\* After the last task (Composer.tsx:135-140, then 107-109): the overall
\* status is published and handleSubmit's finally clears the busy flag.
LoopFinish ==
    /\ sub.pc = "loop"
    /\ sub.i > Len(sub.session.tasks)
    /\ currentSession' = [sub.session EXCEPT !.status = FinalStatus(sub.session)]
    /\ isLoading' = FALSE
    /\ sub' = [sub EXCEPT !.pc = "done"]
    /\ UNCHANGED <<prompt, showPreview, acc,
                   fileCalls, nextId, rejectedPlanning>>

\* index of the first task at or after k whose status is 'pending', or
\* Len(tasks) + 1
RECURSIVE NextPending(_, _)
NextPending(tasks, k) ==
    IF k > Len(tasks) THEN k
    ELSE IF tasks[k].status = "pending" THEN k
    ELSE NextPending(tasks, k + 1)

\* handleAcceptChanges (Composer.tsx:174-190) up to its first await.
HandleAcceptBody ==
    IF currentSession = NoSession
    THEN UNCHANGED composerVars
    ELSE /\ isLoading' = TRUE
         /\ acc' = [pc |-> "loop", session |-> currentSession, i |-> 1,
                    failed |-> FALSE]
         /\ fileCalls' = ByLoop(fileCalls)
         /\ UNCHANGED <<prompt, currentSession, showPreview, sub,
                        nextId, rejectedPlanning>>

HandleAcceptChanges ==
    /\ AcceptEnabled
    /\ acc.pc = "idle"
    /\ HandleAcceptBody

\* the for-of loop: the next 'pending' task of the session the handler
\* closed over is executed
AcceptStart ==
    /\ acc.pc = "loop"
    /\ LET k == NextPending(acc.session.tasks, acc.i)
       IN /\ k <= Len(acc.session.tasks)
          /\ fileCalls' = IssueCall(fileCalls, acc.session.id,
                                    acc.session.tasks[k], "accept")
          /\ acc' = [acc EXCEPT !.pc = "exec", !.i = k]
    /\ UNCHANGED <<prompt, isLoading, currentSession, showPreview, sub,
                   nextId, rejectedPlanning>>

\* the awaited executeTask settles; a throw leaves the loop for the catch
\* and the finally
AcceptSettle ==
    /\ acc.pc = "exec"
    /\ \E ok \in Outcomes :
        LET failed == acc.failed \/ (Outstanding(fileCalls) # {} /\ ok = "error")
        IN /\ fileCalls' = ResolveCall(fileCalls, "accept", "returned")
           /\ IF ExecuteTaskThrows(acc.session.tasks[acc.i], ok)
              THEN /\ acc' = [AccIdle EXCEPT !.failed = failed]
                   /\ isLoading' = FALSE
              ELSE /\ acc' = [acc EXCEPT !.pc = "loop", !.i = acc.i + 1,
                                         !.failed = failed]
                   /\ UNCHANGED isLoading
    /\ UNCHANGED <<prompt, currentSession, showPreview, sub,
                   nextId, rejectedPlanning>>

\* no 'pending' task is left: onClose() (the parent's), then the finally
AcceptFinish ==
    /\ acc.pc = "loop"
    /\ NextPending(acc.session.tasks, acc.i) > Len(acc.session.tasks)
    /\ isLoading' = FALSE
    /\ acc' = [AccIdle EXCEPT !.failed = acc.failed]
    /\ UNCHANGED <<prompt, currentSession, showPreview, sub,
                   fileCalls, nextId, rejectedPlanning>>

\* handleRejectChanges (Composer.tsx:192-196)
HandleRejectBody ==
    /\ currentSession' = NoSession
    /\ showPreview' = FALSE
    /\ prompt' = <<>>
    /\ rejectedPlanning' =
         IF currentSession # NoSession /\ currentSession.status = "planning"
         THEN currentSession.id
         ELSE rejectedPlanning
    /\ UNCHANGED <<isLoading, sub, acc, fileCalls, nextId>>

\* through the Cancel button
HandleRejectChanges ==
    /\ CancelEnabled
    /\ HandleRejectBody

\* reject() as an operation of the orchestrator, invoked while a session
\* exists, whatever the busy flag
RejectOperation ==
    /\ currentSession # NoSession
    /\ HandleRejectBody

\* submit() as an operation of the orchestrator, invoked whatever the state
\* of the button: where the guard of handleSubmit lets it pass it is the
\* submission through the button
SubmitOperation ==
    /\ \/ Trim(prompt) = <<>>
       \/ isLoading
       \/ sub.pc \in {"idle", "done"} /\ nextId <= MaxSessions
    /\ HandleSubmitBody

ComposerNext ==
    \/ SetPrompt /\ UNCHANGED <<tabVars, ws>>
    \/ HandleSubmit /\ UNCHANGED <<tabVars, ws>>
    \/ FileTreeReturn /\ UNCHANGED <<tabVars, ws>>
    \/ PlanReturn /\ UNCHANGED <<tabVars, ws>>
    \/ PlanFails /\ UNCHANGED <<tabVars, ws>>
    \/ LoopStart /\ UNCHANGED <<tabVars, ws>>
    \/ LoopSettle /\ UNCHANGED <<tabVars, ws>>
    \/ LoopFinish /\ UNCHANGED <<tabVars, ws>>
    \/ HandleAcceptChanges /\ UNCHANGED <<tabVars, ws>>
    \/ AcceptStart /\ UNCHANGED <<tabVars, ws>>
    \/ AcceptSettle /\ UNCHANGED <<tabVars, ws>>
    \/ AcceptFinish /\ UNCHANGED <<tabVars, ws>>
    \/ HandleRejectChanges /\ UNCHANGED <<tabVars, ws>>

----------------------------------------------------------------------------
(* CursorTab: the inline suggestion engine (src/unnamed/part_002)          *)
(*                                                                         *)
(* Time is counted in milliseconds and advances in steps of               *)
(* MIN_TRIGGER_INTERVAL.  A time stamp t of the code (Date.now() at some   *)
(* moment) is kept as the age Date.now() - t, cut off at the largest       *)
(* constant it is compared with; a timer is kept as the time left until    *)
(* it is due.                                                              *)

DEBOUNCE_DELAY == 300

MIN_TRIGGER_INTERVAL == 100

\* bounds of the model
MaxCol == 4

MaxInFlight == 2

Columns == 1..MaxCol

\* the positions of the document the host editor shows: a first line of up
\* to MaxCol - 1 characters and an empty second line ("same line" against
\* "another line")
Positions ==
    { [line |-> 1, column |-> c] : c \in Columns } \cup { [line |-> 2, column |-> 1] }

NoPosition == [line |-> 0, column |-> 0]

NoRange == [startLineNumber |-> 0, startColumn |-> 0,
            endLineNumber |-> 0, endColumn |-> 0]

\* null, as a record so that it compares with suggestions
NoSuggestion == [text |-> <<>>, range |-> NoRange, type |-> "null"]

\* no decoration
NoGhost == [text |-> <<>>, range |-> NoRange]

Abs(n) == IF n < 0 THEN -n ELSE n

Min(a, b) == IF a < b THEN a ELSE b

\* ---- pure functions on strings

\* \w: [A-Za-z0-9_]
IsWordChar(c) ==
    c \in {"a", "b", "c", "d", "e", "f", "g", "h", "i", "j", "k", "l", "m",
           "n", "o", "p", "q", "r", "s", "t", "u", "v", "w", "x", "y", "z",
           "A", "B", "C", "D", "E", "F", "G", "H", "I", "J", "K", "L", "M",
           "N", "O", "P", "Q", "R", "S", "T", "U", "V", "W", "X", "Y", "Z",
           "0", "1", "2", "3", "4", "5", "6", "7", "8", "9", "_"}

\* number of occurrences of character q in s: s.split(q).length - 1
RECURSIVE Count(_, _)
Count(s, q) ==
    IF s = <<>> THEN 0
    ELSE (IF Head(s) = q THEN 1 ELSE 0) + Count(Tail(s), q)

StartsWith(s, p) == Len(s) >= Len(p) /\ SubSeq(s, 1, Len(p)) = p

\* the character ` (it cannot be written in a string of this notation)
Backtick == "backtick"

\* shouldTriggerSuggestion without its test for an open string
shouldTriggerIgnoringQuotes(beforeCursor) ==
    IF StartsWith(Trim(beforeCursor), <<"/", "/">>)
       \/ StartsWith(Trim(beforeCursor), <<"/", "*">>)
    THEN FALSE
    ELSE LET t == TrimEnd(beforeCursor)
         IN t # <<>> /\ (IsWordChar(t[Len(t)])
                          \/ t[Len(t)] \in {".", "(", "{", "=", ":", ","})

\* shouldTriggerSuggestion (part_002:413-438); afterCursor is not read
shouldTriggerSuggestion(beforeCursor) ==
    IF StartsWith(Trim(beforeCursor), <<"/", "/">>)
       \/ StartsWith(Trim(beforeCursor), <<"/", "*">>)
    THEN FALSE
    ELSE IF \E q \in {"\"", "'", Backtick} : Count(beforeCursor, q) % 2 = 1
    THEN FALSE
    ELSE LET t == TrimEnd(beforeCursor)
         IN t # <<>> /\ (IsWordChar(t[Len(t)])
                          \/ t[Len(t)] \in {".", "(", "{", "=", ":", ","})

\* detectSuggestionType counting line breaks where the code counts lines
detectSuggestionTypeByBreaks(text) ==
    IF Count(text, "\n") > 0
    THEN IF Count(text, "\n") > 3 THEN "block" ELSE "line"
    ELSE "completion"

\* detectSuggestionType (part_002:440-445)
detectSuggestionType(text) ==
    IF Count(text, "\n") > 0
    THEN IF Count(text, "\n") + 1 > 3 THEN "block" ELSE "line"
    ELSE "completion"

\* text.split(/(\s+)/)[0]: the characters before the first white space
RECURSIVE FirstWord(_)
FirstWord(text) ==
    IF text = <<>> \/ IsSpace(Head(text)) THEN <<>>
    ELSE <<Head(text)>> \o FirstWord(Tail(text))

\* substring that also drops the character at n
SubstringPastNext(text, n) == SubSeq(text, n + 2, Len(text))

\* text.substring(n)
Substring(text, n) == SubSeq(text, n + 1, Len(text))

\* the last element of text.split('\n')
RECURSIVE LastLine(_)
LastLine(text) ==
    IF Count(text, "\n") = 0 THEN text
    ELSE LastLine(Tail(text))

\* ---- what the host and the backend supply

\* texts of the first line up to the cursor, as triggerSuggestion reads them
\* from the model: nothing, a word, an open string, a comment, an assignment
BeforeCursorSamples ==
    { <<>>,
      <<"x">>,
      <<"\"">>,
      <<"/", "/">>,
      <<"x", "=">>,
      <<"x", " ", "=">> }

\* lineContent.substring(0, position.column - 1) for a position of the document
HostLines(position) ==
    IF position.line = 1
    THEN { s \in BeforeCursorSamples : Len(s) = position.column - 1 }
    ELSE { <<>> }

FooBarBaz == <<"f", "o", "o", " ", "b", "a", "r", " ", "b", "a", "z">>

\* the texts the suggestion endpoint answers with
SuggestionTexts ==
    { FooBarBaz,
      <<"x", "\n", "y">> }

\* a response of AIService.getInlineSuggestion (AIService.ts:154-167): an
\* object with a text (maybe empty), or null (also on a failed request)
Responses ==
    { [isNull |-> FALSE, text |-> t] : t \in SuggestionTexts \cup { <<>> } }
    \cup { [isNull |-> TRUE, text |-> <<>>] }

\* ---- the closure the registered handlers run in

\* The effect that registers the editor listeners, commands and actions runs
\* once per editor / monaco (part_002:148-197), in the render in which the
\* editor first exists: the handlers it registers, and everything they call,
\* read the state of that render for good: no suggestion, not loading,
\* lastTriggerTime = 0 (an age beyond every interval).
RegisteredClosure ==
    [currentSuggestion |-> NoSuggestion,
     isLoading |-> FALSE,
     sinceLastTrigger |-> MIN_TRIGGER_INTERVAL]

\* ---- timers (setTimeout / clearTimeout) and the debounce

\* an unused timer id
FreshId(ts) ==
    CHOOSE n \in 1..(Cardinality(ts) + 1) : \A t \in ts : t.id # n

\* if (timeoutRef.current) clearTimeout(timeoutRef.current)
ClearTimeout(ts, ref) == { t \in ts : t.id # ref }

\* debouncedTriggerSuggestion without its clearTimeout
DebouncedKeepsPending(tm) ==
    LET id == FreshId(tm.timers)
    IN [timers |-> tm.timers \cup { [id |-> id, left |-> DEBOUNCE_DELAY] },
        ref |-> id]

\* debouncedTriggerSuggestion (part_002:333-344), on the timer table and
\* timeoutRef
Debounced(tm) ==
    LET cleared == ClearTimeout(tm.timers, tm.ref)
        id == FreshId(cleared)
    IN [timers |-> cleared \cup { [id |-> id, left |-> DEBOUNCE_DELAY] },
        ref |-> id]

\* the callback's guard: now - lastTriggerTime >= MIN_TRIGGER_INTERVAL
IntervalElapsed(since) == since >= MIN_TRIGGER_INTERVAL

\* the movement test with a threshold of 3 columns
MovedSignificantlyBeyondThree(lastPos, position) ==
    Abs(position.line - lastPos.line) > 0
    \/ Abs(position.column - lastPos.column) > 3

\* lineDiff > 0 || colDiff > 2 (part_002:283-286)
MovedSignificantly(lastPos, position) ==
    Abs(position.line - lastPos.line) > 0
    \/ Abs(position.column - lastPos.column) > 2

RemoveAt(seq, k) == SubSeq(seq, 1, k - 1) \o SubSeq(seq, k + 1, Len(seq))

\* the suggestion built from a response (part_002:389-401)
NewSuggestion(text, position) ==
    [text |-> text,
     range |-> [startLineNumber |-> position.line, startColumn |-> position.column,
                endLineNumber |-> position.line, endColumn |-> position.column],
     type |-> detectSuggestionType(text)]

\* showGhostText / setGhostText (part_002:206-236, 447-451)
ShowGhostText(suggestion) == [text |-> suggestion.text, range |-> suggestion.range]

\* position after the inserted text (part_002:470-477)
EndOfInserted(position, text) ==
    [line |-> position.line + Count(text, "\n"),
     column |-> IF Count(text, "\n") = 0
                THEN position.column + Len(text)
                ELSE Len(LastLine(text)) + 1]

\* a step of the engine that edits nothing and notifies nobody
Step(kind) ==
    [kind |-> kind, edits |-> <<>>, notified |-> <<>>, steps |-> <<>>,
     accepted |-> NoSuggestion]

TabInit ==
    /\ currentSuggestion = NoSuggestion
    /\ tabIsLoading = FALSE
    /\ sinceLastTrigger = MIN_TRIGGER_INTERVAL   \* lastTriggerTime = 0
    /\ ghost = NoGhost
    /\ timeoutRef = 0
    /\ lastPositionRef = NoPosition
    /\ timers = {}
    /\ cursor \in Positions               \* wherever the user left it
    /\ lineBefore \in HostLines(cursor)
    /\ requests = <<>>
    /\ sinceEvent = DEBOUNCE_DELAY
    /\ issuedSinceEvent = 0
    /\ lastStep = Step("other")

\* ---- building blocks of the handlers

\* dismissSuggestion without the hide() of the widget
DismissSuggestionKeepsOverlay ==
    /\ currentSuggestion' = NoSuggestion
    /\ UNCHANGED ghost

\* dismissSuggestion (part_002:527-532)
DismissSuggestion ==
    /\ currentSuggestion' = NoSuggestion
    /\ ghost' = NoGhost

\* triggerSuggestion (part_002:346-377) up to the request, in a closure whose
\* isLoading is closureIsLoading; the early exit sets the flag and clears it
\* again in the same synchronous run.  Requests are counted up to
\* MaxInFlight and issued within the positions of the document.
TriggerSuggestion(force, closureIsLoading) ==
    IF closureIsLoading /\ ~force
    THEN UNCHANGED <<tabIsLoading, requests>>
    ELSE IF ~shouldTriggerSuggestion(lineBefore) /\ ~force
    THEN /\ tabIsLoading' = FALSE
         /\ UNCHANGED requests
    ELSE /\ Len(requests) < MaxInFlight
         /\ cursor \in Positions
         /\ tabIsLoading' = TRUE
         /\ requests' = Append(requests, cursor)

\* the timer table and timeoutRef after debouncedTriggerSuggestion ran
\* `times` times
RECURSIVE DebouncedTimes(_, _)
DebouncedTimes(tm, times) ==
    IF times = 0 THEN tm ELSE DebouncedTimes(Debounced(tm), times - 1)

\* a qualifying event re-arms the debounce
Rearm(times) ==
    LET tm == DebouncedTimes([timers |-> timers, ref |-> timeoutRef], times)
    IN /\ timers' = tm.timers
       /\ timeoutRef' = tm.ref
       /\ sinceEvent' = IF times > 0 THEN 0 ELSE sinceEvent
       /\ issuedSinceEvent' = IF times > 0 THEN 0 ELSE issuedSinceEvent

\* ---- events of the host, each with the listener registered for it

\* onDidChangeCursorPosition -> handleCursorPositionChange (part_002:276-295)
CursorPositionChange ==
    \E position \in Positions \ {cursor} : \E line \in HostLines(position) :
        LET live == currentSuggestion # NoSuggestion
            far == lastPositionRef # NoPosition
                   /\ MovedSignificantly(lastPositionRef, position)
        IN /\ cursor' = position
           /\ lineBefore' = line
           /\ IF far THEN DismissSuggestion
                     ELSE UNCHANGED <<currentSuggestion, ghost>>
           /\ lastPositionRef' = position
           /\ Rearm(1)
           /\ lastStep' = Step(IF ~live \/ lastPositionRef = NoPosition THEN "other"
                               ELSE IF far THEN "cursor:far" ELSE "cursor:near")
           /\ UNCHANGED <<tabIsLoading, sinceLastTrigger, requests>>
           /\ UNCHANGED <<composerVars, ws>>

\* handleContentChange (part_002:297-308) in a closure whose currentSuggestion
\* is closureSuggestion
HandleContentChange(closureSuggestion) ==
    /\ sinceLastTrigger' = 0
    /\ IF closureSuggestion # NoSuggestion
       THEN DismissSuggestion
       ELSE UNCHANGED <<currentSuggestion, ghost>>
    /\ Rearm(1)

\* onDidChangeModelContent -> handleContentChange
ContentChange ==
    \E line \in HostLines(cursor) \cup {lineBefore} :
        /\ lineBefore' = line
        /\ HandleContentChange(RegisteredClosure.currentSuggestion)
        /\ lastStep' = Step(IF currentSuggestion # NoSuggestion
                            THEN "content:live" ELSE "other")
        /\ UNCHANGED <<tabIsLoading, lastPositionRef, cursor, requests>>
        /\ UNCHANGED <<composerVars, ws>>

\* the kind of a step that calls triggerSuggestion directly: "trigger:due" if
\* it issues a request at a moment at which the debounce timer is due
TriggerKind ==
    IF Len(requests') > Len(requests) /\ \E t \in timers : t.left = 0
    THEN "trigger:due" ELSE "other"

\* onDidFocusEditorText -> triggerSuggestion()
FocusGained ==
    /\ TriggerSuggestion(FALSE, RegisteredClosure.isLoading)
    /\ lastStep' = Step(TriggerKind)
    /\ UNCHANGED <<currentSuggestion, sinceLastTrigger, ghost, timeoutRef,
                   lastPositionRef, timers, cursor, lineBefore, sinceEvent,
                   issuedSinceEvent>>
    /\ UNCHANGED <<composerVars, ws>>

\* the action cursor-tab-trigger (CtrlCmd+J) -> triggerSuggestion(true)
ForceTrigger ==
    /\ TriggerSuggestion(TRUE, RegisteredClosure.isLoading)
    /\ lastStep' = Step(TriggerKind)
    /\ UNCHANGED <<currentSuggestion, sinceLastTrigger, ghost, timeoutRef,
                   lastPositionRef, timers, cursor, lineBefore, sinceEvent,
                   issuedSinceEvent>>
    /\ UNCHANGED <<composerVars, ws>>

\* DebounceFire with a callback that reads the isLoading of the latest render
DebounceFireLatestRender ==
    \E t \in timers :
        /\ t.left = 0
        /\ timers' = timers \ {t}
        /\ IF IntervalElapsed(RegisteredClosure.sinceLastTrigger)
           THEN TriggerSuggestion(FALSE, tabIsLoading)
           ELSE UNCHANGED <<tabIsLoading, requests>>
        /\ issuedSinceEvent' = issuedSinceEvent + Len(requests') - Len(requests)
        /\ lastStep' = Step(IF Len(requests') > Len(requests)
                            THEN "timer:issued" ELSE "other")
        /\ UNCHANGED <<currentSuggestion, sinceLastTrigger, ghost, timeoutRef,
                       lastPositionRef, cursor, lineBefore, sinceEvent>>
        /\ UNCHANGED <<composerVars, ws>>

\* the timer set by debouncedTriggerSuggestion is due: its callback
\* (part_002:338-343) runs in the closure it was created in
DebounceFire ==
    \E t \in timers :
        /\ t.left = 0
        /\ timers' = timers \ {t}
        /\ IF IntervalElapsed(RegisteredClosure.sinceLastTrigger)
           THEN TriggerSuggestion(FALSE, RegisteredClosure.isLoading)
           ELSE UNCHANGED <<tabIsLoading, requests>>
        /\ issuedSinceEvent' = issuedSinceEvent + Len(requests') - Len(requests)
        /\ lastStep' = Step(IF Len(requests') > Len(requests)
                            THEN "timer:issued" ELSE "other")
        /\ UNCHANGED <<currentSuggestion, sinceLastTrigger, ghost, timeoutRef,
                       lastPositionRef, cursor, lineBefore, sinceEvent>>
        /\ UNCHANGED <<composerVars, ws>>

\* a getInlineSuggestion call settles and triggerSuggestion resumes
\* (part_002:389-410); calls settle in any order.  The step is recorded as
\* "response:none" if nothing is shown for it, and as "response:overtaken"
\* if its text is shown although a request issued later is outstanding.
SuggestionResponse ==
    \E k \in 1..Len(requests) : \E suggestion \in Responses :
        LET position == requests[k]
            newSuggestion == NewSuggestion(suggestion.text, position)
            shown == ~suggestion.isNull /\ suggestion.text # <<>>
        IN /\ requests' = RemoveAt(requests, k)
           /\ IF shown
              THEN /\ currentSuggestion' = newSuggestion
                   /\ ghost' = ShowGhostText(newSuggestion)
              ELSE UNCHANGED <<currentSuggestion, ghost>>
           /\ tabIsLoading' = FALSE
           /\ lastStep' = Step(IF ~shown THEN "response:none"
                               ELSE IF k < Len(requests) THEN "response:overtaken"
                               ELSE "other")
           /\ UNCHANGED <<sinceLastTrigger, timeoutRef, lastPositionRef, timers,
                          cursor, lineBefore, sinceEvent, issuedSinceEvent>>
           /\ UNCHANGED <<composerVars, ws>>

\* MIN_TRIGGER_INTERVAL milliseconds pass; a due timer runs first
Tick ==
    /\ \A t \in timers : t.left > 0
    /\ timers' = { [t EXCEPT !.left = @ - MIN_TRIGGER_INTERVAL] : t \in timers }
    /\ sinceEvent' = Min(sinceEvent + MIN_TRIGGER_INTERVAL, DEBOUNCE_DELAY)
    /\ sinceLastTrigger' = Min(sinceLastTrigger + MIN_TRIGGER_INTERVAL,
                               MIN_TRIGGER_INTERVAL)
    /\ UNCHANGED <<currentSuggestion, tabIsLoading, ghost, timeoutRef,
                   lastPositionRef, cursor, lineBefore, requests,
                   issuedSinceEvent, lastStep>>
    /\ UNCHANGED <<composerVars, ws>>

\* ---- accepting and dismissing

\* acceptSuggestion (part_002:453-485) past its guard, for the suggestion its
\* closure holds.  executeEdits raises the content listener and setPosition
\* the cursor listener inside the call, so the debounce is re-armed twice.
AcceptSuggestion(suggestion) ==
    LET position == cursor
        newPosition == EndOfInserted(position, suggestion.text)
    IN /\ lastStep' = [kind |-> "accept",
                       edits |-> << [line |-> position.line,
                                     column |-> position.column,
                                     text |-> suggestion.text] >>,
                       notified |-> << suggestion.text >>,
                       steps |-> <<"executeEdits", "setPosition",
                                   "onSuggestionAccepted", "dismissSuggestion">>,
                       accepted |-> suggestion]
       /\ cursor' = newPosition
       /\ lineBefore' = IF Count(suggestion.text, "\n") = 0
                        THEN lineBefore \o suggestion.text
                        ELSE LastLine(suggestion.text)
       /\ sinceLastTrigger' = 0
       /\ lastPositionRef' = newPosition
       /\ Rearm(2)
       /\ DismissSuggestion
       /\ UNCHANGED <<tabIsLoading, requests>>

\* acceptPartialSuggestion (part_002:487-525) past its guard.  An insertion of
\* no text changes nothing in the host; after an insertion at the cursor the
\* host leaves the cursor before the inserted word or moves it behind it
\* (`follows`), and then the cursor listener runs as well.
AcceptPartialSuggestion(suggestion, follows) ==
    LET firstWord == FirstWord(suggestion.text)
        position == cursor
        remainingText == Substring(suggestion.text, Len(firstWord))
        updatedSuggestion ==
            [suggestion EXCEPT !.text = remainingText,
                               !.range.startColumn = @ + Len(firstWord)]
        edited == firstWord # <<>>
        moved == edited /\ follows
    IN /\ lastStep' = [kind |-> "partial",
                       edits |-> << [line |-> position.line,
                                     column |-> position.column,
                                     text |-> firstWord] >>,
                       notified |-> <<>>,
                       steps |-> <<"executeEdits">>,
                       accepted |-> suggestion]
       /\ IF Trim(remainingText) # <<>>
          THEN /\ currentSuggestion' = updatedSuggestion
               /\ ghost' = ShowGhostText(updatedSuggestion)
          ELSE DismissSuggestion
       /\ sinceLastTrigger' = IF edited THEN 0 ELSE sinceLastTrigger
       /\ cursor' = IF moved THEN EndOfInserted(position, firstWord) ELSE cursor
       /\ lineBefore' = IF moved THEN lineBefore \o firstWord ELSE lineBefore
       /\ lastPositionRef' = IF moved THEN cursor' ELSE lastPositionRef
       /\ Rearm(IF moved THEN 2 ELSE IF edited THEN 1 ELSE 0)
       /\ UNCHANGED <<tabIsLoading, requests>>

Keys == {"Tab", "Escape", "CtrlRightArrow"}

\* handleKeyDown (part_002:310-331) and the Tab and Escape commands
\* (part_002:163-176), in a closure whose currentSuggestion is
\* closureSuggestion: without a suggestion every key is left to the host
HandleKeyDown(closureSuggestion) ==
    IF closureSuggestion = NoSuggestion
    THEN /\ lastStep' = Step("other")
         /\ UNCHANGED <<currentSuggestion, tabIsLoading, sinceLastTrigger, ghost,
                        timeoutRef, lastPositionRef, timers, cursor, lineBefore,
                        requests, sinceEvent, issuedSinceEvent>>
    ELSE \E key \in Keys :
            IF key = "Tab"
            THEN AcceptSuggestion(closureSuggestion)
            ELSE IF key = "Escape"
            THEN /\ DismissSuggestion
                 /\ lastStep' = Step("dismiss")
                 /\ UNCHANGED <<tabIsLoading, sinceLastTrigger, timeoutRef,
                                lastPositionRef, timers, cursor, lineBefore,
                                requests, sinceEvent, issuedSinceEvent>>
            ELSE \E follows \in BOOLEAN :
                    AcceptPartialSuggestion(closureSuggestion, follows)

\* onKeyDown -> handleKeyDown, as registered
KeyDown ==
    /\ HandleKeyDown(RegisteredClosure.currentSuggestion)
    /\ UNCHANGED <<composerVars, ws>>

TabNext ==
    \/ CursorPositionChange
    \/ ContentChange
    \/ KeyDown
    \/ FocusGained
    \/ ForceTrigger
    \/ DebounceFire
    \/ SuggestionResponse
    \/ Tick

\* ---- the operations of the engine on the state they are invoked in

\* accept(): acceptSuggestion with the live suggestion
AcceptOperation ==
    /\ currentSuggestion # NoSuggestion
    /\ cursor \in Positions
    /\ AcceptSuggestion(currentSuggestion)
    /\ UNCHANGED <<composerVars, ws>>

\* partial accept: acceptPartialSuggestion with the live suggestion
AcceptPartialOperation ==
    /\ currentSuggestion # NoSuggestion
    /\ cursor \in Positions
    /\ \E follows \in BOOLEAN : AcceptPartialSuggestion(currentSuggestion, follows)
    /\ UNCHANGED <<composerVars, ws>>

\* dismiss(): dismissSuggestion; a dismiss that follows a dismiss is
\* recorded as "dismiss:again"
DismissOperation ==
    /\ DismissSuggestion
    /\ lastStep' = Step(IF currentSuggestion # NoSuggestion THEN "dismiss"
                        ELSE IF lastStep.kind \in {"dismiss", "dismiss:again"}
                        THEN "dismiss:again"
                        ELSE "other")
    /\ UNCHANGED <<tabIsLoading, sinceLastTrigger, timeoutRef, lastPositionRef,
                   timers, cursor, lineBefore, requests, sinceEvent,
                   issuedSinceEvent>>
    /\ UNCHANGED <<composerVars, ws>>

TabOpsNext ==
    \/ TabNext
    \/ AcceptOperation
    \/ AcceptPartialOperation
    \/ DismissOperation

\* the engine with the cursor where the host puts it when a file is opened
TabAtRest == TabInit /\ cursor = [line |-> 1, column |-> 1]

Init == ComposerInit /\ TabAtRest /\ ServiceInit

Next == ComposerNext

\* The Composer as shipped: every handler is invoked through its control.
Spec == Init /\ [][Next]_vars

\* the running handleSubmit goes on: the request it awaits returns (or, the
\* plan request, fails) and the code after the await runs
SubmitProgress ==
    /\ \/ FileTreeReturn
       \/ PlanReturn
       \/ PlanFails
       \/ LoopStart
       \/ LoopSettle
       \/ LoopFinish
    /\ UNCHANGED <<tabVars, ws>>

\* The Composer as shipped, where every request handleSubmit awaits returns
\* and the event loop runs the continuation.
SpecFair == Init /\ [][Next]_vars /\ WF_vars(SubmitProgress)

OpsNext ==
    \/ ComposerNext
    \/ RejectOperation /\ UNCHANGED <<tabVars, ws>>
    \/ SubmitOperation /\ UNCHANGED <<tabVars, ws>>

\* The orchestrator's operations: reject() may also be invoked while the
\* busy flag is set, submit() also while the button is disabled.
SpecOps == Init /\ [][OpsNext]_vars

TabSpecInit == ComposerInit /\ TabInit /\ ServiceInit

\* The suggestion engine as shipped: the host's events reach the listeners
\* registered by the effect.
SpecTab == TabSpecInit /\ [][TabNext]_vars

\* The engine as shipped, where time passes, every request to the suggestion
\* endpoint settles, and a due timer's callback runs (it is held up here only
\* while as many requests are outstanding as are counted).
SpecTabFair ==
    /\ TabSpecInit
    /\ [][TabNext]_vars
    /\ WF_vars(Tick)
    /\ WF_vars(SuggestionResponse)
    /\ SF_vars(DebounceFire)

\* The engine's operations: accept, partial accept and dismiss act on the
\* state they are invoked in.
SpecTabOps == TabSpecInit /\ [][TabOpsNext]_vars

\* The WebSocket connection of AIService: clients connect and disconnect,
\* sockets close, reconnect timers fire.
SpecWs == Init /\ [][WsNext]_vars

\* ---- the trigger heuristics on their own

MaxBefore == 4

\* the characters the heuristics tell apart: comment openers, the three
\* quotes, a word character, white space, a trigger character
HeuristicsAlphabet ==
    {"/", "*", "\"", "'", Backtick, "x", " ", "=", ","}

RECURSIVE StringsUpTo(_)
StringsUpTo(n) ==
    IF n = 0 THEN { <<>> }
    ELSE StringsUpTo(n - 1)
         \cup { Append(s, c) : s \in { t \in StringsUpTo(n - 1) : Len(t) = n - 1 },
                               c \in HeuristicsAlphabet }

SomeComment ==
    <<"/", "/", " ", "s", "o", "m", "e", " ", "c", "o", "m", "m", "e", "n", "t">>

ConstXEquals == <<"c", "o", "n", "s", "t", " ", "x", " ", "=", " ">>

SayHel == <<"s", "a", "y", " ", "\"", "h", "e", "l">>

\* the beforeCursor strings the heuristics are applied to
BeforeCursorInputs ==
    StringsUpTo(MaxBefore) \cup {SomeComment, ConstXEquals, SayHel}

\* the engine at a cursor with any of these texts before it
HeuristicsInit ==
    /\ ComposerInit
    /\ ServiceInit
    /\ currentSuggestion = NoSuggestion
    /\ tabIsLoading = FALSE
    /\ sinceLastTrigger = MIN_TRIGGER_INTERVAL
    /\ ghost = NoGhost
    /\ timeoutRef = 0
    /\ lastPositionRef = NoPosition
    /\ timers = {}
    /\ lineBefore \in BeforeCursorInputs
    /\ cursor = [line |-> 1, column |-> Len(lineBefore) + 1]
    /\ requests = <<>>
    /\ sinceEvent = DEBOUNCE_DELAY
    /\ issuedSinceEvent = 0
    /\ lastStep = Step("other")

\* shouldTriggerSuggestion(beforeCursor, afterCursor) is applied to the text
\* before the cursor (part_002:362-369) and its result recorded
ApplyHeuristics ==
    /\ lastStep.kind = "other"
    /\ lastStep' = Step(IF shouldTriggerSuggestion(lineBefore)
                        THEN "heuristics:accept" ELSE "heuristics:reject")
    /\ UNCHANGED <<currentSuggestion, tabIsLoading, sinceLastTrigger, ghost,
                   timeoutRef, lastPositionRef, timers, cursor, lineBefore,
                   requests, sinceEvent, issuedSinceEvent>>
    /\ UNCHANGED <<composerVars, ws>>

SpecHeuristics == HeuristicsInit /\ [][ApplyHeuristics]_vars

\* ---- partial accept on its own

MaxText == 4

\* the characters acceptPartialSuggestion tells apart: a word character and
\* two kinds of white space
TextAlphabet == {"x", " ", "\n"}

RECURSIVE TextsUpTo(_)
TextsUpTo(n) ==
    IF n = 0 THEN { <<>> }
    ELSE TextsUpTo(n - 1)
         \cup { Append(s, c) : s \in { t \in TextsUpTo(n - 1) : Len(t) = n - 1 },
                               c \in TextAlphabet }

\* the engine right after the response to a request issued at the cursor
\* has been shown: the suggestion is live and anchored at the cursor; its
\* text is any non-empty text (part_002:389-405)
PartialInit ==
    /\ ComposerInit
    /\ ServiceInit
    /\ cursor \in Positions
    /\ lineBefore \in HostLines(cursor)
    /\ \E text \in TextsUpTo(MaxText) \ { <<>> } :
          /\ currentSuggestion = NewSuggestion(text, cursor)
          /\ ghost = ShowGhostText(NewSuggestion(text, cursor))
    /\ tabIsLoading = FALSE
    /\ sinceLastTrigger = MIN_TRIGGER_INTERVAL
    /\ timeoutRef = 0
    /\ lastPositionRef = NoPosition
    /\ timers = {}
    /\ requests = <<>>
    /\ sinceEvent = DEBOUNCE_DELAY
    /\ issuedSinceEvent = 0
    /\ lastStep = Step("other")

\* partial accepts of a shown suggestion, one after the other
SpecPartial == PartialInit /\ [][AcceptPartialOperation]_vars

\* ---- the classification of a response on its own

\* the engine with one request outstanding, issued at the cursor
ClassifyInit ==
    /\ ComposerInit
    /\ ServiceInit
    /\ cursor \in Positions
    /\ lineBefore \in HostLines(cursor)
    /\ currentSuggestion = NoSuggestion
    /\ ghost = NoGhost
    /\ tabIsLoading = TRUE
    /\ sinceLastTrigger = MIN_TRIGGER_INTERVAL
    /\ timeoutRef = 0
    /\ lastPositionRef = NoPosition
    /\ timers = {}
    /\ requests = << cursor >>
    /\ sinceEvent = DEBOUNCE_DELAY
    /\ issuedSinceEvent = 0
    /\ lastStep = Step("other")

\* the request returns a text, any non-empty text of up to MaxText
\* characters, and triggerSuggestion builds and shows the suggestion
\* (part_002:389-410)
ShowResponse ==
    /\ requests # <<>>
    /\ \E text \in TextsUpTo(MaxText) \ { <<>> } :
          LET newSuggestion == NewSuggestion(text, Head(requests))
          IN /\ currentSuggestion' = newSuggestion
             /\ ghost' = ShowGhostText(newSuggestion)
    /\ requests' = Tail(requests)
    /\ tabIsLoading' = FALSE
    /\ lastStep' = Step("other")
    /\ UNCHANGED <<sinceLastTrigger, timeoutRef, lastPositionRef, timers,
                   cursor, lineBefore, sinceEvent, issuedSinceEvent>>
    /\ UNCHANGED <<composerVars, ws>>

SpecClassify == ClassifyInit /\ [][ShowResponse]_vars

----------------------------------------------------------------------------
(* Claims about the Composer *)

\* the execution loop of the latest submit has finished and its session is
\* still the current one
LoopFinished == sub.pc = "done" /\ currentSession # NoSession

AllCompleted(session) ==
    \A k \in 1..Len(session.tasks) : session.tasks[k].status = "completed"

SomeFailed(session) ==
    \E k \in 1..Len(session.tasks) : session.tasks[k].status = "failed"

\* the calls the execution loop issued for task k
LoopCallsOf(k) ==
    { c \in 1..Len(fileCalls) : fileCalls[c].by = "loop" /\ fileCalls[c].task = k }

\* C1: once executeTasks has finished, the observable session is 'completed'
\* exactly if every one of its tasks is 'completed', and it is 'failed' if
\* any of its tasks is 'failed'.
C1_FinalStatusAgreesWithTasks ==
    LoopFinished =>
        /\ currentSession.status = "completed" <=> AllCompleted(currentSession)
        /\ SomeFailed(currentSession) => currentSession.status = "failed"

\* C1 witness: the loop has finished on a plan of several tasks, all of
\* whose effects were carried out.
C1_Witness ==
    /\ LoopFinished
    /\ Len(currentSession.tasks) >= 2
    /\ \A k \in 1..Len(currentSession.tasks) :
         \E c \in LoopCallsOf(k) : fileCalls[c].ok = "ok"

\* C2 (as claimed): when the loop has finished, a task whose file effect
\* failed is 'failed', a task whose file effect succeeded is 'completed',
\* every task was executed, and the session is 'failed' if an effect failed.
C2_ContinueOnError ==
    LoopFinished =>
        /\ \A k \in 1..Len(currentSession.tasks) :
             /\ FileOpOf(currentSession.tasks[k]) # "none" => LoopCallsOf(k) # {}
             /\ \A c \in LoopCallsOf(k) :
                  /\ fileCalls[c].ok = "error" =>
                        currentSession.tasks[k].status = "failed"
                  /\ fileCalls[c].ok = "ok" =>
                        currentSession.tasks[k].status = "completed"
        /\ (\E c \in 1..Len(fileCalls) :
              fileCalls[c].by = "loop" /\ fileCalls[c].ok = "error")
           => currentSession.status = "failed"

\* C3: file-persistence calls are made one at a time and, in the execution
\* loop, in plan order: a call is issued only after every call issued before
\* it has returned, and the loop's calls are for increasing task indices.
C3_SequentialInPlanOrder ==
    \A a, b \in 1..Len(fileCalls) :
        a < b =>
            /\ fileCalls[a].ok # "pending"
            /\ (fileCalls[a].by = "loop" /\ fileCalls[b].by = "loop")
                  => fileCalls[a].task < fileCalls[b].task

\* C3 witness: the loop has issued the call for the third task of a plan
\* whose three tasks all have a file effect, and that call is outstanding.
C3_Witness ==
    /\ sub.pc = "exec"
    /\ sub.i = 3
    /\ Len(fileCalls) = 3
    /\ fileCalls[3].ok = "pending"

\* C4 (as claimed): a session rejected while its status was 'planning' never
\* has a task 'in_progress' and no file-persistence call is made for it.
C4_RejectedWhilePlanningNeverExecutes ==
    rejectedPlanning # 0 =>
        /\ \A c \in 1..Len(fileCalls) : fileCalls[c].sid # rejectedPlanning
        /\ currentSession.id = rejectedPlanning =>
             \A k \in 1..Len(currentSession.tasks) :
                 currentSession.tasks[k].status # "in_progress"

----------------------------------------------------------------------------
(* Claims about the suggestion engine *)

Live == currentSuggestion # NoSuggestion

C6_AtMostOneOutstanding == Len(requests) <= 1

\* C7: a cursor event that finds a live suggestion and a recorded position
\* clears the suggestion and the overlay, and issues no request, if the new
\* position is on another line or more than 2 columns away from the recorded
\* one; otherwise it leaves the suggestion and the overlay as they are.
C7_MovementCancellation ==
    [][(CursorPositionChange /\ Live /\ lastPositionRef # NoPosition) =>
         IF cursor'.line # lastPositionRef.line
            \/ Abs(cursor'.column - lastPositionRef.column) > 2
         THEN /\ currentSuggestion' = NoSuggestion
              /\ ghost' = NoGhost
              /\ requests' = requests
         ELSE /\ currentSuggestion' = currentSuggestion
              /\ ghost' = ghost]_vars

\* a cursor event just found a live suggestion and a recorded position on
\* another line or more than 2 columns away, and cleared the suggestion
C7_Witness ==
    /\ lastStep.kind = "cursor:far"
    /\ lastPositionRef = cursor
    /\ ~Live
    /\ ghost = NoGhost

\* C8: after a content change that found a suggestion showing, no suggestion
\* is live and the overlay is removed
C8_EditDismisses ==
    lastStep.kind = "content:live" => ~Live /\ ghost = NoGhost

\* C9: a partial accept of a live suggestion leaves a strictly shorter
\* suggestion text (none at all once the text is consumed)
C9_PartialAcceptShortens ==
    lastStep.kind = "partial" =>
        Len(currentSuggestion.text) < Len(lastStep.accepted.text)

\* C10: a full accept of a live suggestion with text t anchored at (L, C)
\* inserts t at (L, C), leaves the cursor at the end of the inserted text
\* counted from (L, C), notifies the caller once with t and leaves no live
\* suggestion, in the order insert, move cursor, notify, dismiss
C10_FullAcceptAtAnchor ==
    lastStep.kind = "accept" =>
        LET t == lastStep.accepted.text
            L == lastStep.accepted.range.startLineNumber
            C == lastStep.accepted.range.startColumn
        IN /\ lastStep.edits = << [line |-> L, column |-> C, text |-> t] >>
           /\ cursor.line = L + Count(t, "\n")
           /\ cursor.column = IF Count(t, "\n") = 0
                              THEN C + Len(t)
                              ELSE Len(LastLine(t)) + 1
           /\ lastStep.notified = << t >>
           /\ lastStep.steps = <<"executeEdits", "setPosition",
                                 "onSuggestionAccepted", "dismissSuggestion">>
           /\ ~Live
           /\ ghost = NoGhost

\* C11: a response that arrives after a newer request was issued does not
\* become the live suggestion and no overlay is shown for it
C11_StaleResponseDiscarded == lastStep.kind # "response:overtaken"

\* C12: after a request that failed or returned null or an empty text, no
\* suggestion is live, no overlay is shown and the in-flight flag is clear
C12_FailureLeavesIdle ==
    lastStep.kind = "response:none" =>
        ~Live /\ ghost = NoGhost /\ ~tabIsLoading

\* C18: dismiss leaves no live suggestion and no overlay, whatever it found;
\* where it found none it changes neither; it never changes the cursor, the
\* text, the debounce timer, the in-flight flag or the outstanding requests
C18_DismissIdempotent ==
    [][DismissOperation =>
         /\ currentSuggestion' = NoSuggestion
         /\ ghost' = NoGhost
         /\ ~Live => currentSuggestion' = currentSuggestion /\ ghost' = ghost
         /\ UNCHANGED <<cursor, lineBefore, timers, timeoutRef, sinceEvent,
                        tabIsLoading, requests, lastPositionRef,
                        sinceLastTrigger>>]_vars

\* dismiss was applied twice in a row, the first time to a live suggestion
C18_Witness ==
    /\ lastStep.kind = "dismiss:again"
    /\ ~Live
    /\ ghost = NoGhost

----------------------------------------------------------------------------
(* Further claims about the Composer *)

\* a submission is in progress, or the session shown is being executed
SessionRunning ==
    sub.pc \notin {"idle", "done"} \/ currentSession.status = "executing"

\* C13: submit with a blank prompt, or while a session is running, changes
\* nothing: not the session, the busy flag, the preview flag or the file
\* calls, and it issues no file-tree and no plan request
C13_SubmitNoOp ==
    [][(SubmitOperation /\ (Trim(prompt) = <<>> \/ SessionRunning))
         => UNCHANGED composerVars]_vars

\* a state in which submit is invoked on a non-blank prompt while the loop
\* of a session is running; the no-op leaves this very state
C13_Witness ==
    /\ Trim(prompt) # <<>>
    /\ sub.pc = "exec"
    /\ currentSession.status = "executing"
    /\ ENABLED SubmitOperation

\* C14: when the plan request of a submission fails, the session of that
\* submission ends 'failed' with no tasks, no file call was issued and the
\* busy flag is clear
C14_PlanningFailureSurfaced ==
    [][PlanFails =>
         /\ currentSession'.id = sub.session.id
         /\ currentSession'.status = "failed"
         /\ currentSession'.tasks = <<>>
         /\ fileCalls' = <<>>
         /\ ~isLoading']_vars

\* C15: an error of a file effect applied by handleAcceptChanges leaves the
\* handler: once an effect has failed, the handler applies nothing further
\* and does not run to its normal end
C15_AcceptErrorPropagates == acc.failed => acc.pc = "idle"

\* C16: after reject no session exists, and none is put back before the next
\* submit: while the latest submission stands rejected (here: rejected while
\* it was being planned) there is no current session
C16_RejectedSessionStaysGone ==
    rejectedPlanning # 0 => currentSession = NoSession

----------------------------------------------------------------------------
(* Claims about the trigger heuristics *)

\* the rule list: the text, white space aside, opens with // or /*
RuleInComment(s) ==
    \E i \in 1..(Len(s) - 1) :
        /\ \A j \in 1..(i - 1) : IsSpace(s[j])
        /\ s[i] = "/"
        /\ s[i + 1] \in {"/", "*"}

\* the rule list: one of the quote characters occurs an odd number of times
RuleInString(s) ==
    \E q \in {"\"", "'", Backtick} :
        Cardinality({ i \in 1..Len(s) : s[i] = q }) % 2 = 1

\* the rule list: the text ends with a word character or one of . ( { = : ,
\* and then nothing but white space
RuleAfterTrigger(s) ==
    \E i \in 1..Len(s) :
        /\ IsWordChar(s[i]) \/ s[i] \in {".", "(", "{", "=", ":", ","}
        /\ \A j \in (i + 1)..Len(s) : IsSpace(s[j])

RuleAccepts(s) == ~RuleInComment(s) /\ ~RuleInString(s) /\ RuleAfterTrigger(s)

\* C17: shouldTriggerSuggestion accepts a beforeCursor text exactly when the
\* rule list does; it rejects "// some comment" and 'say "hel' and accepts
\* "const x = "
C17_HeuristicsMatchRules ==
    /\ lastStep.kind = "heuristics:accept" =>
          RuleAccepts(lineBefore) /\ lineBefore \notin {SomeComment, SayHel}
    /\ lastStep.kind = "heuristics:reject" =>
          ~RuleAccepts(lineBefore) /\ lineBefore # ConstXEquals

\* the heuristics were applied inside an unterminated string and rejected it
C17_Witness ==
    /\ lastStep.kind = "heuristics:reject"
    /\ lineBefore = SayHel

\* C19: in the session shown, the status of a task changes only from
\* 'pending' to 'in_progress' and from 'in_progress' to 'completed' or
\* 'failed'; a 'completed' or 'failed' task keeps its status
C19_TaskStateMachine ==
    [][(/\ currentSession # NoSession
        /\ currentSession'.id = currentSession.id
        /\ Len(currentSession'.tasks) = Len(currentSession.tasks))
         => \A k \in 1..Len(currentSession.tasks) :
              \/ currentSession'.tasks[k].status = currentSession.tasks[k].status
              \/ <<currentSession.tasks[k].status, currentSession'.tasks[k].status>>
                    \in { <<"pending", "in_progress">>,
                          <<"in_progress", "completed">>,
                          <<"in_progress", "failed">> }]_vars

\* the steps of the status of a session
SessionStatusStep(a, b) ==
    \/ a = b
    \/ <<a, b>> \in { <<"planning", "executing">>,
                      <<"planning", "failed">>,
                      <<"executing", "completed">>,
                      <<"executing", "failed">> }

\* C20: the status of a session changes only from 'planning' to 'executing'
\* or 'failed' and from 'executing' to 'completed' or 'failed', and its task
\* list is replaced only in the step from 'planning' to 'executing'.  The
\* session shown is compared with what was last shown of it: the session on
\* display, or the one the running submission replaced on display.
C20_SessionStateMachine ==
    [][\A old \in {currentSession, sub.captured} :
         (old # NoSession /\ currentSession'.id = old.id)
           => /\ SessionStatusStep(old.status, currentSession'.status)
              /\ Len(currentSession'.tasks) # Len(old.tasks)
                   => /\ old.status = "planning"
                      /\ currentSession'.status = "executing"]_vars

\* the session of the latest submit is at its end: every task was taken by
\* the loop, no file call is outstanding, the session is 'completed' or
\* 'failed', and the busy flag is clear, so that the Generate Plan button
\* takes a submit again
Drained ==
    /\ sub.pc = "done"
    /\ sub.i = Len(sub.session.tasks) + 1
    /\ Outstanding(fileCalls) = {}
    /\ currentSession.id = sub.session.id
    /\ currentSession.status \in {"completed", "failed"}
    /\ ~isLoading
    /\ SubmitEnabled

\* C21: once the plan of a submission has arrived, the session reaches
\* 'completed' or 'failed' with all its tasks drained and the busy flag
\* clear, so that a new submit is accepted; a submission whose plan request
\* is still to return gets there or ends with the failure of that request
C21_SessionTerminates ==
    /\ (sub.pc \in {"loop", "exec"}) ~> Drained
    /\ (sub.pc \in {"tree", "plan"}) ~> (Drained \/ (sub.pc = "idle" /\ ~isLoading))

\* a session of three tasks, each with a file effect, has been drained
C21_Witness ==
    /\ Drained
    /\ Len(sub.session.tasks) = 3
    /\ Len(fileCalls) = 3

\* C23 (as claimed): for a task of kind 'move' no file call is made, and the
\* task is not shown 'completed' as if it had been applied
C23_MoveReportedUnsupported ==
    \A k \in 1..Len(currentSession.tasks) :
        currentSession.tasks[k].type = "move" =>
            /\ \A c \in 1..Len(fileCalls) :
                  fileCalls[c].sid = currentSession.id => fileCalls[c].task # k
            /\ currentSession.tasks[k].status # "completed"

\* C27 (as claimed): for each task of a session at most one file call is
\* made, by the execution loop and handleAcceptChanges together
C27_AtMostOnceApplication ==
    \A a, b \in 1..Len(fileCalls) :
        (a # b /\ fileCalls[a].sid = fileCalls[b].sid)
            => fileCalls[a].task # fileCalls[b].task

\* the file-persistence call a task of each kind stands for
ClaimedOp(type) ==
    CASE type = "edit"   -> "saveFileContent"
      [] type = "create" -> "createFile"
      [] type = "delete" -> "deleteFile"
      [] OTHER           -> "unsupported"

\* C28 (as claimed): a task shown 'completed' had exactly one file call made
\* for it by the execution loop, the one of its kind on its path, and that
\* call succeeded
C28_CompletedMeansApplied ==
    \A k \in 1..Len(currentSession.tasks) :
        currentSession.tasks[k].status = "completed" =>
            \E c \in LoopCallsOf(k) :
                /\ LoopCallsOf(k) = {c}
                /\ fileCalls[c].op = ClaimedOp(currentSession.tasks[k].type)
                /\ fileCalls[c].path = currentSession.tasks[k].filePath
                /\ fileCalls[c].ok = "ok"

----------------------------------------------------------------------------
(* Further claims about the suggestion engine *)

\* the first white-space-delimited token of t: what precedes the first white
\* space character of t, all of t if it has none
FirstToken(t) ==
    LET spaces == { i \in 1..Len(t) : IsSpace(t[i]) }
    IN IF spaces = {} THEN t
       ELSE SubSeq(t, 1, (CHOOSE i \in spaces : \A j \in spaces : i <= j) - 1)

Blank(t) == \A i \in 1..Len(t) : IsSpace(t[i])

\* C22: a partial accept of a live suggestion with text t inserts the first
\* token w of t at the cursor and nothing else; with r what follows w in t:
\* if r is not blank the suggestion stays live with text r (w followed by
\* the text left is t), its anchor start column grown by the length of w, the
\* rest of the anchor as it was, and the overlay shows r at that anchor; if r
\* is empty or blank, no suggestion is live and the overlay is gone
C22_PartialAcceptConserves ==
    [][AcceptPartialOperation =>
         LET t == currentSuggestion.text
             w == FirstToken(t)
             r == SubSeq(t, Len(w) + 1, Len(t))
         IN /\ lastStep'.edits = << [line |-> cursor.line,
                                      column |-> cursor.column,
                                      text |-> w] >>
            /\ IF ~Blank(r)
               THEN /\ currentSuggestion'.text = r
                    /\ w \o currentSuggestion'.text = t
                    /\ currentSuggestion'.range =
                         [currentSuggestion.range EXCEPT
                            !.startColumn = @ + Len(w)]
                    /\ currentSuggestion'.type = currentSuggestion.type
                    /\ ghost' = [text |-> r, range |-> currentSuggestion'.range]
               ELSE /\ currentSuggestion' = NoSuggestion
                    /\ ghost' = NoGhost]_vars

\* a partial accept took a word off a suggestion of two words and left the
\* second one, with the white space before it, live
C22_Witness ==
    /\ lastStep.kind = "partial"
    /\ lastStep.accepted.text = <<"x", " ", "x">>
    /\ Live
    /\ currentSuggestion.text = <<" ", "x">>
    /\ ghost.text = <<" ", "x">>

PausedAtEligible ==
    /\ timers # {}
    /\ sinceEvent > 0
    /\ shouldTriggerSuggestion(lineBefore)

Breaks(t) == Cardinality({ i \in 1..Len(t) : t[i] = "\n" })

\* C26 (as claimed): the suggestion built from a response is a 'completion'
\* if its text has no line break, a 'line' if it has 1 to 3 line breaks, and
\* a 'block' if it has more than 3 lines
C26_ClassificationAsClaimed ==
    Live =>
        LET b == Breaks(currentSuggestion.text)
        IN /\ b = 0 => currentSuggestion.type = "completion"
           /\ b \in 1..3 => currentSuggestion.type = "line"
           /\ b + 1 > 3 => currentSuggestion.type = "block"

\* C26 (amended): the suggestion built from a response is a 'completion' if
\* its text has no line break, a 'line' if it has 1 or 2 line breaks, and a
\* 'block' if it has 3 or more line breaks, that is more than 3 lines
C26_Classification ==
    Live =>
        LET b == Breaks(currentSuggestion.text)
        IN currentSuggestion.type =
             IF b = 0 THEN "completion"
             ELSE IF b <= 2 THEN "line"
             ELSE "block"

\* a response of exactly 3 line breaks, 4 lines, was classified a 'block'
C26_Witness ==
    /\ Live
    /\ Breaks(currentSuggestion.text) = 3
    /\ currentSuggestion.type = "block"

\* C29 (as claimed): while a suggestion is live the cursor is on the line of
\* its anchor and at most 2 columns from the anchor's column
C29_AnchorValid ==
    Live =>
        /\ cursor.line = currentSuggestion.range.startLineNumber
        /\ Abs(cursor.column - currentSuggestion.range.startColumn) <= 2

----------------------------------------------------------------------------
(* Claims about the WebSocket connection *)

OpenSockets == { k \in 1..Len(ws.sockets) : ws.sockets[k] = "open" }

\* C30 (as claimed): at most one connection is open at any time, and once
\* disconnectWebSocket has been called no connection is opened until a client
\* calls connectWebSocket again
C30_NoReconnectAfterDisconnect ==
    /\ [](Cardinality(OpenSockets) <= 1)
    /\ [][(ws.disconnected /\ ws'.disconnected)
            => Len(ws'.sockets) = Len(ws.sockets)]_vars

=============================================================================
